---- MODULE Spec2Model ----
(***************************************************************************)
(* A model of the per-key token-bucket rate limiter of src/src/lib.rs:     *)
(* RateLimiter (new, request, set_vip, prune) and Bucket (refill,          *)
(* request).                                                               *)
(*                                                                         *)
(* Time is counted in ticks (the nanoseconds of Instant / Duration).       *)
(* Bucket sizes and token counts are naturals below 2^31. A refill rate is *)
(* any u32, written as its two 16-bit halves [hi, lo] (the value is        *)
(* hi * 65536 + lo), and `tokens + tokens_to_add as u32` is computed on    *)
(* such halves, so that the truncation and the wrap-around of the 32-bit   *)
(* arithmetic are those of the code.                                       *)
(*                                                                         *)
(* Specifications:                                                         *)
(*   Spec        calls made one at a time on a limiter built from Configs  *)
(*   SpecZero    the same calls on a limiter built with a zero argument    *)
(*   SpecThreads two threads interleaving the steps of their calls         *)
(*   SpecFair    the two threads under a fair scheduler                    *)
(*   SpecRefill  Bucket::refill applied repeatedly to one bucket           *)
(*   SpecTrace   the run of examples/simple.rs                             *)
(***************************************************************************)
EXTENDS Integers, FiniteSets, Sequences, TLC

(***************************************************************************)
(* Bounds and input sets of the model.                                     *)
(***************************************************************************)
MaxTime == 2
MaxOps == 5
MaxCalls == 3
MaxFairCalls == 2
MaxDelay == 1
MaxElapsed == 4
MaxRefills == 3

Keys == {"k1", "k2"}
Threads == {"t1", "t2"}

\* Arguments given to RateLimiter::new (all positive, as the constructor's
\* contract asks): bucket sizes 1 and 2, refill rates 1 and 2^31, refill
\* intervals of 1 and 2 ticks.
Configs == {[size |-> 1, rate |-> [hi |-> 0, lo |-> 1], interval |-> 2],
            [size |-> 2, rate |-> [hi |-> 0, lo |-> 1], interval |-> 1],
            [size |-> 1, rate |-> [hi |-> 32768, lo |-> 0], interval |-> 1],
            [size |-> 2, rate |-> [hi |-> 32768, lo |-> 0], interval |-> 2]}

\* Arguments RateLimiter::new accepts although one of them is zero: a zero
\* bucket size, a zero refill rate, a zero refill interval.
ZeroConfigs == {[size |-> 0, rate |-> [hi |-> 0, lo |-> 1], interval |-> 1],
                [size |-> 1, rate |-> [hi |-> 0, lo |-> 0], interval |-> 1],
                [size |-> 1, rate |-> [hi |-> 0, lo |-> 1], interval |-> 0]}

\* Arguments given to RateLimiter::new for the limiter the threads call:
\* bucket size 2, refill rate 2^32 - 1, refill interval 1 tick, so that a
\* bucket can be exhausted within MaxCalls calls and one elapsed interval
\* makes tokens + tokens_to_add exceed 32 bits.
ThreadConfigs == {[size |-> 2, rate |-> [hi |-> 65535, lo |-> 65535], interval |-> 1]}

\* Arguments given to set_vip (rates 2^31 - 1 and 2) and to prune.
VipParams == {[size |-> 2, rate |-> [hi |-> 32767, lo |-> 65535]],
              [size |-> 3, rate |-> [hi |-> 0, lo |-> 2]]}
PruneAges == {0, 1}

\* The refill rates of the buckets refilled on their own: 1, 2, 2^31 and
\* 2^32 - 1.
TrialRates == {[hi |-> 0, lo |-> 1], [hi |-> 0, lo |-> 2],
               [hi |-> 32768, lo |-> 0], [hi |-> 65535, lo |-> 65535]}

VARIABLES
    default_bucket_size,      \* RateLimiter.default_bucket_size
    default_refill_rate,      \* RateLimiter.default_refill_rate
    default_refill_interval,  \* RateLimiter.default_refill_interval
    buckets,                  \* RateLimiter.buckets: the HashMap, a function on the present keys
    counters,                 \* RateLimiter.counters
    poisoned,                 \* the buckets mutex is poisoned (a holder panicked)
    overflow_checks,          \* build profile: u32 `+` panics on overflow (debug) or wraps (release)
    now,                      \* the clock read by Instant::now()
    nops,                     \* number of calls made so far
    last,                     \* the call that returned at this instant: operation, arguments, result
    hist,                     \* per key: the history the properties speak about
    pc,                       \* per thread: where it is in its call
    loc,                      \* per thread: the locals of its call
    calls,                    \* number of calls the threads have begun
    buckets_lock,             \* holder of the MutexGuard of RateLimiter.buckets, or "free"
    counters_lock,            \* holder of the MutexGuard of RateLimiter.counters, or "free"
    shadow,                   \* the map as the calls, taken one at a time in the order of their writes, leave it
    ledger,                   \* per key: tokens credited to its bucket and tokens taken from it
    returned,                 \* how many request calls have returned true and how many false
    bucket,                   \* a Bucket on which refill() is called directly (self of Bucket::refill)
    trial                     \* what the refills of `bucket` started from and how far they got

vars == <<default_bucket_size, default_refill_rate, default_refill_interval, buckets,
          counters, poisoned, overflow_checks, now, nops, last, hist,
          pc, loc, calls, buckets_lock, counters_lock, shadow, ledger,
          returned, bucket, trial>>

\* The state of the threads' calls, untouched when calls are made one at a time.
threadvars == <<pc, loc, calls, buckets_lock, counters_lock, shadow, ledger>>

\* The arguments of RateLimiter::new and the build profile.
cfgvars == <<default_bucket_size, default_refill_rate, default_refill_interval,
             overflow_checks>>

\* The bucket refilled on its own, untouched by the limiter's calls.
selfvars == <<bucket, trial>>

(***************************************************************************)
(* 32-bit arithmetic of Bucket::refill on 16-bit halves.                   *)
(***************************************************************************)
Half == 65536

\* (intervals_passed * refill_rate) as u32: the product is a u128, the cast
\* keeps its low 32 bits.
TruncU32(n, r) ==
    LET lo_full == n * r.lo
        hi_full == n * r.hi + (lo_full \div Half)
    IN  [hi |-> hi_full % Half, lo |-> lo_full % Half]

\* self.tokens + (tokens_to_add as u32) on u32: the sum's low 32 bits and
\* whether it overflowed.
AddU32(t, a) ==
    LET lo_full == (t % Half) + a.lo
        hi_full == (t \div Half) + a.hi + (lo_full \div Half)
    IN  [hi |-> hi_full % Half, lo |-> lo_full % Half, overflow |-> hi_full >= Half]

\* p.min(size) for a u32 p given by its halves and size < 2^31.
MinU32(p, size) ==
    IF p.hi > size \div Half \/ (p.hi = size \div Half /\ p.lo >= size % Half)
    THEN size
    ELSE p.hi * Half + p.lo

\* Instant::duration_since: the elapsed time, zero when `earlier` is later.
DurationSince(t, earlier) == IF t >= earlier THEN t - earlier ELSE 0

(***************************************************************************)
(* Bucket                                                                  *)
(***************************************************************************)
RateLimiterStats == [requests_allowed |-> 0, requests_denied |-> 0]

\* Mutant of NewBucket: the bucket starts empty instead of full.
NewBucketEmpty(size, rate, interval, t) ==
    [size |-> size, tokens |-> 0, refill_rate |-> rate,
     refill_interval |-> interval, last_filled |-> t,
     counters |-> [requests_allowed |-> 0, requests_denied |-> 0]]

\* Mutant of NewBucket: last_filled is the start of the clock, not the
\* instant of the insertion.
NewBucketStale(size, rate, interval, t) ==
    [size |-> size, tokens |-> size, refill_rate |-> rate,
     refill_interval |-> interval, last_filled |-> 0,
     counters |-> [requests_allowed |-> 0, requests_denied |-> 0]]

\* The Bucket literal of RateLimiter::request and RateLimiter::set_vip.
NewBucket(size, rate, interval, t) ==
    [size |-> size, tokens |-> size, refill_rate |-> rate,
     refill_interval |-> interval, last_filled |-> t,
     counters |-> RateLimiterStats]

\* Mutant of Refill: last_filled is set to the instant of the call, which
\* drops the time elapsed since the last whole interval.
RefillNaive(b, t, checks) ==
    LET time_passed == DurationSince(t, b.last_filled)
        intervals_passed == time_passed \div b.refill_interval
        sum == AddU32(b.tokens, TruncU32(intervals_passed, b.refill_rate))
    IN  IF b.refill_interval = 0 \/ (sum.overflow /\ checks)
        THEN [panic |-> TRUE, bucket |-> b]
        ELSE [panic |-> FALSE,
              bucket |-> [b EXCEPT !.tokens = MinU32(sum, b.size),
                                   !.last_filled = t]]

\* Mutant of Refill: last_filled is left where it was, so the same
\* intervals are credited again by the next refill.
RefillKeepAnchor(b, t, checks) ==
    LET time_passed == DurationSince(t, b.last_filled)
        intervals_passed == time_passed \div b.refill_interval
        sum == AddU32(b.tokens, TruncU32(intervals_passed, b.refill_rate))
    IN  IF b.refill_interval = 0 \/ (sum.overflow /\ checks)
        THEN [panic |-> TRUE, bucket |-> b]
        ELSE [panic |-> FALSE,
              bucket |-> [b EXCEPT !.tokens = MinU32(sum, b.size)]]

\* Bucket::refill at instant t. The division panics when refill_interval is
\* zero, and the u32 addition panics when it overflows and overflow checks
\* are on; the bucket is then left as it was.
Refill(b, t, checks) ==
    LET time_passed == DurationSince(t, b.last_filled)
        intervals_passed == time_passed \div b.refill_interval
        tokens_to_add == TruncU32(intervals_passed, b.refill_rate)
        sum == AddU32(b.tokens, tokens_to_add)
        remainder == time_passed % b.refill_interval
    IN  IF b.refill_interval = 0
        THEN [panic |-> TRUE, bucket |-> b]
        ELSE IF sum.overflow /\ checks
        THEN [panic |-> TRUE, bucket |-> b]
        ELSE [panic |-> FALSE,
              bucket |-> [b EXCEPT !.tokens = MinU32(sum, b.size),
                                   !.last_filled = t - remainder]]

\* The admission test of Bucket::request.
HasToken(b) == b.tokens > 0

\* Bucket::request at instant t.
BucketRequest(b, t, checks) ==
    LET r == Refill(b, t, checks)
        f == r.bucket
    IN  IF r.panic
        THEN [result |-> "panic", bucket |-> b]
        ELSE IF HasToken(f)
        THEN [result |-> "admitted",
              bucket |-> [f EXCEPT !.tokens = f.tokens - 1,
                                   !.counters.requests_allowed = @ + 1]]
        ELSE [result |-> "denied",
              bucket |-> [f EXCEPT !.counters.requests_denied = @ + 1]]

(***************************************************************************)
(* The HashMap                                                             *)
(***************************************************************************)
Has(m, k) == k \in DOMAIN m

\* entry(k).or_insert(b): the map with b under k unless k is present.
OrInsert(m, k, b) ==
    IF Has(m, k) THEN m
    ELSE [x \in DOMAIN m \cup {k} |-> IF x = k THEN b ELSE m[x]]

\* Mutant of Retain: `<` for `<=`.
RetainStrict(b, t, age) == DurationSince(t, b.last_filled) < age

\* retain's predicate in RateLimiter::prune.
Retain(b, t, age) == DurationSince(t, b.last_filled) <= age

\* buckets.retain(...) of RateLimiter::prune.
Pruned(m, t, age) ==
    [x \in {k \in DOMAIN m : Retain(m[k], t, age)} |-> m[x]]

(***************************************************************************)
(* RateLimiter, one call at a time (the caller holds &mut self)            *)
(***************************************************************************)
\* Mutant of SetVipMap: the tokens are reset to the size passed in, not to
\* the size of the bucket found in the map.
SetVipMapArgSize(m, k, size, rate, interval, t) ==
    LET ins == OrInsert(m, k, NewBucket(size, rate, interval, t))
    IN  [ins EXCEPT ![k].last_filled = t, ![k].tokens = size]

\* Mutant of SetVipMap: the refill is one token short of the bucket's size.
SetVipMapShort(m, k, size, rate, interval, t) ==
    LET ins == OrInsert(m, k, NewBucket(size, rate, interval, t))
    IN  [ins EXCEPT ![k].last_filled = t, ![k].tokens = ins[k].size - 1]

\* The map after the whole of set_vip(k, size, rate) at instant t.
SetVipMap(m, k, size, rate, interval, t) ==
    LET ins == OrInsert(m, k, NewBucket(size, rate, interval, t))
    IN  [ins EXCEPT ![k].last_filled = t, ![k].tokens = ins[k].size]

\* What request(k) does to the map and what it returns, with the Bucket
\* literal built at instant t0 and the bucket's request made at instant t.
RequestMap(m, k, size, rate, interval, t0, t, checks) ==
    LET ins == OrInsert(m, k, NewBucket(size, rate, interval, t0))
        r == BucketRequest(ins[k], t, checks)
    IN  [result |-> r.result, map |-> [ins EXCEPT ![k] = r.bucket]]

\* The outcome request(k) would have in the current state.
RequestOutcome(k) ==
    IF poisoned THEN "panic"
    ELSE RequestMap(buckets, k, default_bucket_size, default_refill_rate,
                    default_refill_interval, now, now, overflow_checks).result

\* Per key: how its bucket came to be ("none", "request", "vip", or "mixed"
\* once set_vip hit an existing bucket or prune removed it), when the key was
\* last touched by request or set_vip, the position of the last request in a
\* run of requests that began a full refill interval after the bucket was
\* exhausted, whether set_vip was the last call on the key, and when the
\* key's bucket was created (kept while the kind is "request" or "vip").
NoHist == [kind |-> "none", touched |-> 0, streak |-> 0, after_vip |-> FALSE,
           created |-> 0]

NoCall == [op |-> "none", key |-> "k1", result |-> "none", size |-> 0,
           rate |-> [hi |-> 0, lo |-> 0],
           age |-> 0, removed |-> {}, vip_next |-> FALSE]

\* A thread's locals outside a call (`absent` records that the key had no
\* bucket when the call began).
NoLocals == [op |-> "none", key |-> "k1", size |-> 0, rate |-> [hi |-> 0, lo |-> 0],
             age |-> 0, absent |-> FALSE, found |-> FALSE, t0 |-> 0, t |-> 0,
             snap |-> NewBucket(0, [hi |-> 0, lo |-> 0], 1, 0),
             success |-> "none", expected |-> "none", cnt |-> RateLimiterStats]

NoLedger == [granted |-> 0, spent |-> 0]

\* RateLimiter::new(c.size, c.rate, c.interval), no call made yet.
New(c) ==
    /\ default_bucket_size = c.size
    /\ default_refill_rate = c.rate
    /\ default_refill_interval = c.interval
    /\ buckets = << >>
    /\ counters = RateLimiterStats
    /\ poisoned = FALSE
    /\ overflow_checks \in BOOLEAN
    /\ now = 0
    /\ nops = 0
    /\ last = NoCall
    /\ hist = [k \in Keys |-> NoHist]
    /\ pc = [t \in Threads |-> "idle"]
    /\ loc = [t \in Threads |-> NoLocals]
    /\ calls = 0
    /\ buckets_lock = "free"
    /\ counters_lock = "free"
    /\ shadow = << >>
    /\ ledger = [k \in Keys |-> NoLedger]
    /\ returned = RateLimiterStats

\* No bucket is refilled on its own.
NoTrial == [origin |-> NewBucket(0, [hi |-> 0, lo |-> 0], 1, 0),
            refills |-> 0, at |-> 0, panicked |-> FALSE]

Idle ==
    /\ bucket = NoTrial.origin
    /\ trial = NoTrial

Init == \E c \in Configs : New(c) /\ Idle

\* The bucket of k is exhausted and a full refill interval has passed since
\* the last call on k.
WaitedExhausted(k) ==
    /\ Has(buckets, k)
    /\ buckets[k].tokens = 0
    /\ now - hist[k].touched >= buckets[k].refill_interval

\* The history of key k after a request on it.
HistRequest(k) ==
    [hist[k] EXCEPT
       !.kind = IF @ = "none" THEN "request" ELSE @,
       !.touched = now,
       !.streak = IF @ > 0 THEN (IF @ <= buckets[k].size THEN @ + 1 ELSE @)
                  ELSE IF WaitedExhausted(k) THEN 1
                  ELSE 0,
       !.after_vip = FALSE,
       !.created = IF hist[k].kind = "none" /\ ~poisoned THEN now ELSE @]

\* RateLimiter::request
Request(k) ==
    /\ nops < MaxOps
    /\ nops' = nops + 1
    /\ IF poisoned
       THEN /\ last' = [NoCall EXCEPT !.op = "request", !.key = k, !.result = "panic",
                                      !.vip_next = hist[k].after_vip]
            /\ hist' = [hist EXCEPT ![k] = HistRequest(k)]
            /\ UNCHANGED <<buckets, counters, returned, poisoned>>
       ELSE LET r == RequestMap(buckets, k, default_bucket_size, default_refill_rate,
                                default_refill_interval, now, now, overflow_checks)
            IN  /\ buckets' = r.map
                /\ poisoned' = (r.result = "panic")
                /\ counters' =
                     IF r.result = "admitted"
                     THEN [counters EXCEPT !.requests_allowed = @ + 1]
                     ELSE IF r.result = "denied"
                     THEN [counters EXCEPT !.requests_denied = @ + 1]
                     ELSE counters
                /\ returned' =
                     IF r.result = "admitted"
                     THEN [returned EXCEPT !.requests_allowed = @ + 1]
                     ELSE IF r.result = "denied"
                     THEN [returned EXCEPT !.requests_denied = @ + 1]
                     ELSE returned
                /\ last' = [NoCall EXCEPT !.op = "request", !.key = k,
                                          !.result = r.result,
                                          !.vip_next = hist[k].after_vip]
                /\ hist' = [hist EXCEPT ![k] = HistRequest(k)]
    /\ UNCHANGED <<cfgvars, selfvars, now, threadvars>>

\* RateLimiter::set_vip
SetVip(k, size, rate) ==
    /\ nops < MaxOps
    /\ nops' = nops + 1
    /\ IF poisoned
       THEN /\ last' = [NoCall EXCEPT !.op = "set_vip", !.key = k, !.result = "panic",
                                      !.size = size, !.rate = rate]
            /\ UNCHANGED <<buckets, hist>>
       ELSE /\ buckets' = SetVipMap(buckets, k, size, rate, default_refill_interval, now)
            /\ last' = [NoCall EXCEPT !.op = "set_vip", !.key = k, !.result = "ok",
                                      !.size = size, !.rate = rate]
            /\ hist' = [hist EXCEPT ![k] =
                          [@ EXCEPT !.kind = IF @ = "none" THEN "vip" ELSE "mixed",
                                    !.touched = now,
                                    !.streak = 0,
                                    !.after_vip = TRUE,
                                    !.created = IF hist[k].kind = "none" THEN now ELSE 0]]
    /\ UNCHANGED <<cfgvars, selfvars, counters, returned, poisoned, now, threadvars>>

\* RateLimiter::prune
Prune(age) ==
    /\ nops < MaxOps
    /\ nops' = nops + 1
    /\ IF poisoned
       THEN /\ last' = [NoCall EXCEPT !.op = "prune", !.result = "panic", !.age = age]
            /\ UNCHANGED <<buckets, hist>>
       ELSE LET kept == Pruned(buckets, now, age)
                gone == DOMAIN buckets \ DOMAIN kept
            IN  /\ buckets' = kept
                /\ last' = [NoCall EXCEPT !.op = "prune", !.result = "ok", !.age = age,
                                          !.removed = gone]
                /\ hist' = [k \in Keys |->
                              IF k \in gone
                              THEN [hist[k] EXCEPT !.kind = "mixed",
                                                   !.streak = 0,
                                                   !.after_vip = FALSE,
                                                   !.created = 0]
                              ELSE hist[k]]
    /\ UNCHANGED <<cfgvars, selfvars, counters, returned, poisoned, now, threadvars>>

\* Time passes between calls.
Tick ==
    /\ now < MaxTime
    /\ now' = now + 1
    /\ last' = NoCall
    /\ UNCHANGED <<cfgvars, selfvars, buckets, counters, returned, poisoned, nops, hist, threadvars>>

Next ==
    \/ \E k \in Keys : Request(k)
    \/ \E k \in Keys, p \in VipParams : SetVip(k, p.size, p.rate)
    \/ \E age \in PruneAges : Prune(age)
    \/ Tick

Spec == Init /\ [][Next]_vars

\* RateLimiter::new called with a zero argument: it checks nothing and
\* returns the limiter, on which the same calls are then made.
InitZero == \E c \in ZeroConfigs : New(c) /\ Idle

SpecZero == InitZero /\ [][Next]_vars

(***************************************************************************)
(* RateLimiter shared by threads. A call is a sequence of steps; the       *)
(* buckets mutex and the counters mutex are what orders the steps of       *)
(* different calls. Reads and writes of a bucket are separate steps.       *)
(***************************************************************************)
\* Mutant of CanLock: the lock is granted whoever holds it.
CanLockAlways(m) == TRUE

\* Mutex::lock returns once no other guard of the mutex is alive.
CanLock(m) == m = "free"

\* The map with b stored under k.
Store(m, k, b) == [x \in DOMAIN m \cup {k} |-> IF x = k THEN b ELSE m[x]]

\* Thread t is done with its call.
Finish(t) ==
    /\ pc' = [pc EXCEPT ![t] = "idle"]
    /\ loc' = [loc EXCEPT ![t] = NoLocals]

\* A thread calls request(k).
CallRequest(t, k) ==
    /\ pc[t] = "idle"
    /\ calls < MaxCalls
    /\ calls' = calls + 1
    /\ pc' = [pc EXCEPT ![t] = "req_lock"]
    /\ loc' = [loc EXCEPT ![t] = [NoLocals EXCEPT !.op = "request", !.key = k,
                                                  !.absent = ~Has(buckets, k)]]
    /\ UNCHANGED <<cfgvars, selfvars, buckets, counters, returned, poisoned, now, nops, last, hist,
                   buckets_lock, counters_lock, shadow, ledger>>

\* request: self.buckets.lock().unwrap() and the lookup of entry(key).
ReqLock(t) ==
    /\ pc[t] = "req_lock"
    /\ CanLock(buckets_lock)
    /\ IF poisoned
       THEN Finish(t) /\ UNCHANGED buckets_lock
       ELSE /\ buckets_lock' = t
            /\ pc' = [pc EXCEPT ![t] = "req_entry"]
            /\ loc' = [loc EXCEPT ![t].found = Has(buckets, loc[t].key)]
    /\ UNCHANGED <<cfgvars, selfvars, buckets, counters, returned, poisoned, now, nops, last, hist,
                   calls, counters_lock, shadow, ledger>>

\* Mutant of ReqEntry: insert() for entry().or_insert(), which replaces the
\* bucket the key already has.
ReqEntryInsert(t) ==
    /\ pc[t] = "req_entry"
    /\ pc' = [pc EXCEPT ![t] = "req_read"]
    /\ loc' = [loc EXCEPT ![t].t0 = now]
    /\ buckets' = Store(buckets, loc[t].key,
                        NewBucket(default_bucket_size, default_refill_rate,
                                  default_refill_interval, now))
    /\ ledger' = [ledger EXCEPT ![loc[t].key] =
                    [granted |-> default_bucket_size, spent |-> 0]]
    /\ UNCHANGED <<cfgvars, selfvars, counters, returned, poisoned, now, nops, last,
                   hist, calls, buckets_lock, counters_lock, shadow>>

\* request: or_insert(Bucket { .. last_filled: Instant::now() .. }).
ReqEntry(t) ==
    /\ pc[t] = "req_entry"
    /\ pc' = [pc EXCEPT ![t] = "req_read"]
    /\ loc' = [loc EXCEPT ![t].t0 = now]
    /\ IF loc[t].found
       THEN UNCHANGED <<buckets, ledger>>
       ELSE /\ buckets' = Store(buckets, loc[t].key,
                                NewBucket(default_bucket_size, default_refill_rate,
                                          default_refill_interval, now))
            /\ ledger' = [ledger EXCEPT ![loc[t].key] =
                            [granted |-> default_bucket_size, spent |-> 0]]
    /\ UNCHANGED <<cfgvars, selfvars, counters, returned, poisoned, now, nops, last, hist,
                   calls, buckets_lock, counters_lock, shadow>>

\* request: bucket.request() reads the clock and the bucket.
ReqRead(t) ==
    /\ pc[t] = "req_read"
    /\ Has(buckets, loc[t].key)
    /\ pc' = [pc EXCEPT ![t] = "req_write"]
    /\ loc' = [loc EXCEPT ![t].snap = buckets[loc[t].key], ![t].t = now]
    /\ UNCHANGED <<cfgvars, selfvars, buckets, counters, returned, poisoned, now, nops, last, hist,
                   calls, buckets_lock, counters_lock, shadow, ledger>>

\* request: bucket.request() writes the bucket, then drop(buckets). A panic
\* in refill drops the guard while unwinding, which poisons the mutex. The
\* same request is made on the shadow map: entry(key).or_insert(..) and
\* bucket.request(), as in RequestMap.
ReqWrite(t) ==
    /\ pc[t] = "req_write"
    /\ \E k \in {loc[t].key}, snap \in {loc[t].snap}, at \in {loc[t].t} :
       \E r \in {BucketRequest(snap, at, overflow_checks)},
          filled \in {Refill(snap, at, FALSE).bucket},
          ins \in {OrInsert(shadow, k,
                            NewBucket(default_bucket_size, default_refill_rate,
                                      default_refill_interval, loc[t].t0))} :
       \E ser \in {BucketRequest(ins[k], at, overflow_checks)} :
           /\ shadow' = [ins EXCEPT ![k] = ser.bucket]
           /\ buckets_lock' = "free"
           /\ IF r.result = "panic"
              THEN /\ poisoned' = TRUE
                   /\ Finish(t)
                   /\ UNCHANGED <<buckets, ledger>>
              ELSE /\ buckets' = [buckets EXCEPT ![k] = r.bucket]
                   /\ ledger' = [ledger EXCEPT
                                   ![k].granted = @ + filled.tokens - snap.tokens,
                                   ![k].spent = IF r.result = "admitted" THEN @ + 1 ELSE @]
                   /\ pc' = [pc EXCEPT ![t] = "cnt_lock"]
                   /\ loc' = [loc EXCEPT ![t].success = r.result,
                                         ![t].expected = ser.result]
                   /\ UNCHANGED poisoned
    /\ UNCHANGED <<cfgvars, selfvars, counters, returned, now, nops, last, hist, calls, counters_lock>>

\* request: self.counters.lock().unwrap() and the read of the counter.
CntLock(t) ==
    /\ pc[t] = "cnt_lock"
    /\ CanLock(counters_lock)
    /\ counters_lock' = t
    /\ pc' = [pc EXCEPT ![t] = "cnt_write"]
    /\ loc' = [loc EXCEPT ![t].cnt = counters]
    /\ UNCHANGED <<cfgvars, selfvars, buckets, counters, returned, poisoned, now, nops, last, hist,
                   calls, buckets_lock, shadow, ledger>>

\* request: the counter is written, drop(counters), and success is returned.
CntWrite(t) ==
    /\ pc[t] = "cnt_write"
    /\ counters' = IF loc[t].success = "admitted"
                   THEN [loc[t].cnt EXCEPT !.requests_allowed = @ + 1]
                   ELSE [loc[t].cnt EXCEPT !.requests_denied = @ + 1]
    /\ returned' = IF loc[t].success = "admitted"
                   THEN [returned EXCEPT !.requests_allowed = @ + 1]
                   ELSE [returned EXCEPT !.requests_denied = @ + 1]
    /\ counters_lock' = "free"
    /\ Finish(t)
    /\ UNCHANGED <<cfgvars, selfvars, buckets, poisoned, now, nops, last, hist,
                   calls, buckets_lock, shadow, ledger>>

\* A thread calls set_vip(k, size, rate).
CallSetVip(t, k, size, rate) ==
    /\ pc[t] = "idle"
    /\ calls < MaxCalls
    /\ calls' = calls + 1
    /\ pc' = [pc EXCEPT ![t] = "vip_lock"]
    /\ loc' = [loc EXCEPT ![t] = [NoLocals EXCEPT !.op = "set_vip", !.key = k,
                                                  !.size = size, !.rate = rate,
                                                  !.absent = ~Has(buckets, k)]]
    /\ UNCHANGED <<cfgvars, selfvars, buckets, counters, returned, poisoned, now, nops, last, hist,
                   buckets_lock, counters_lock, shadow, ledger>>

\* set_vip: self.buckets.lock().unwrap() and the lookup of entry(key).
VipLock(t) ==
    /\ pc[t] = "vip_lock"
    /\ CanLock(buckets_lock)
    /\ IF poisoned
       THEN Finish(t) /\ UNCHANGED buckets_lock
       ELSE /\ buckets_lock' = t
            /\ pc' = [pc EXCEPT ![t] = "vip_entry"]
            /\ loc' = [loc EXCEPT ![t].found = Has(buckets, loc[t].key)]
    /\ UNCHANGED <<cfgvars, selfvars, buckets, counters, returned, poisoned, now, nops, last, hist,
                   calls, counters_lock, shadow, ledger>>

\* Mutant of VipEntry: the buckets mutex is locked a second time for the
\* insertion, by the thread that already holds its guard.
VipEntryRelock(t) ==
    /\ pc[t] = "vip_entry"
    /\ CanLock(buckets_lock)
    /\ pc' = [pc EXCEPT ![t] = "vip_reset"]
    /\ loc' = [loc EXCEPT ![t].t0 = now]
    /\ buckets' = OrInsert(buckets, loc[t].key,
                           NewBucket(loc[t].size, loc[t].rate,
                                     default_refill_interval, now))
    /\ UNCHANGED <<cfgvars, selfvars, counters, returned, poisoned, now, nops, last,
                   hist, calls, buckets_lock, counters_lock, shadow, ledger>>

\* set_vip: or_insert(Bucket { size: bucket_size, .. }).
VipEntry(t) ==
    /\ pc[t] = "vip_entry"
    /\ pc' = [pc EXCEPT ![t] = "vip_reset"]
    /\ loc' = [loc EXCEPT ![t].t0 = now]
    /\ IF loc[t].found
       THEN UNCHANGED <<buckets, ledger>>
       ELSE /\ buckets' = Store(buckets, loc[t].key,
                                NewBucket(loc[t].size, loc[t].rate,
                                          default_refill_interval, now))
            /\ ledger' = [ledger EXCEPT ![loc[t].key] =
                            [granted |-> loc[t].size, spent |-> 0]]
    /\ UNCHANGED <<cfgvars, selfvars, counters, returned, poisoned, now, nops, last, hist,
                   calls, buckets_lock, counters_lock, shadow>>

\* set_vip: last_filled = Instant::now(), tokens = size, and the guard is
\* dropped on return.
VipReset(t) ==
    /\ pc[t] = "vip_reset"
    /\ Has(buckets, loc[t].key)
    /\ LET k == loc[t].key
       IN  /\ buckets' = [buckets EXCEPT ![k].last_filled = now,
                                         ![k].tokens = buckets[k].size]
           /\ ledger' = [ledger EXCEPT
                           ![k].granted = @ + buckets[k].size - buckets[k].tokens]
           /\ shadow' = SetVipMap(shadow, k, loc[t].size, loc[t].rate,
                                  default_refill_interval, now)
    /\ buckets_lock' = "free"
    /\ Finish(t)
    /\ UNCHANGED <<cfgvars, selfvars, counters, returned, poisoned, now, nops, last, hist,
                   calls, counters_lock>>

\* A thread calls prune(age): let now = Instant::now().
CallPrune(t, age) ==
    /\ pc[t] = "idle"
    /\ calls < MaxCalls
    /\ calls' = calls + 1
    /\ pc' = [pc EXCEPT ![t] = "prune_lock"]
    /\ loc' = [loc EXCEPT ![t] = [NoLocals EXCEPT !.op = "prune", !.age = age,
                                                  !.t = now]]
    /\ UNCHANGED <<cfgvars, selfvars, buckets, counters, returned, poisoned, now, nops, last, hist,
                   buckets_lock, counters_lock, shadow, ledger>>

\* prune: self.buckets.lock().unwrap(), buckets.retain(..), and the guard is
\* dropped on return.
PruneRetain(t) ==
    /\ pc[t] = "prune_lock"
    /\ CanLock(buckets_lock)
    /\ IF poisoned
       THEN UNCHANGED <<buckets, shadow, ledger>>
       ELSE LET kept == Pruned(buckets, loc[t].t, loc[t].age)
            IN  /\ buckets' = kept
                /\ shadow' = Pruned(shadow, loc[t].t, loc[t].age)
                /\ ledger' = [k \in Keys |->
                                IF k \in DOMAIN buckets \ DOMAIN kept
                                THEN NoLedger ELSE ledger[k]]
    /\ Finish(t)
    /\ UNCHANGED <<cfgvars, selfvars, counters, returned, poisoned, now, nops, last, hist,
                   calls, buckets_lock, counters_lock>>

\* Time passes while the threads run.
Delay ==
    /\ now < MaxDelay
    /\ now' = now + 1
    /\ UNCHANGED <<cfgvars, selfvars, buckets, counters, returned, poisoned, nops, last, hist, threadvars>>

NextThreads ==
    \/ \E t \in Threads, k \in Keys : CallRequest(t, k)
    \/ \E t \in Threads : ReqLock(t)
    \/ \E t \in Threads : ReqEntry(t)
    \/ \E t \in Threads : ReqRead(t)
    \/ \E t \in Threads : ReqWrite(t)
    \/ \E t \in Threads : CntLock(t)
    \/ \E t \in Threads : CntWrite(t)
    \/ \E t \in Threads, k \in Keys, p \in VipParams : CallSetVip(t, k, p.size, p.rate)
    \/ \E t \in Threads : VipLock(t)
    \/ \E t \in Threads : VipEntry(t)
    \/ \E t \in Threads : VipReset(t)
    \/ \E t \in Threads, age \in PruneAges : CallPrune(t, age)
    \/ \E t \in Threads : PruneRetain(t)
    \/ Delay

InitThreads == \E c \in ThreadConfigs : New(c) /\ Idle

SpecThreads == InitThreads /\ [][NextThreads]_vars

\* A step of the call thread t is in.
ThreadStep(t) ==
    \/ ReqLock(t) \/ ReqEntry(t) \/ ReqRead(t) \/ ReqWrite(t)
    \/ CntLock(t) \/ CntWrite(t)
    \/ VipLock(t) \/ VipEntry(t) \/ VipReset(t)
    \/ PruneRetain(t)

\* Thread t is in a call and its next step can be taken: a lock() finds the
\* mutex free and not poisoned, a step inside a critical section needs
\* nothing, and a step on the bucket the call got from entry() finds it in
\* the map.
CanStep(t) ==
    \/ /\ pc[t] \in {"req_lock", "vip_lock", "prune_lock"}
       /\ CanLock(buckets_lock)
    \/ /\ pc[t] = "cnt_lock"
       /\ CanLock(counters_lock)
    \/ pc[t] \in {"req_entry", "req_write", "cnt_write", "vip_entry"}
    \/ /\ pc[t] \in {"req_read", "vip_reset"}
       /\ Has(buckets, loc[t].key)

\* Thread t has taken a step of its call.
Ran(t) == pc[t] # "idle" /\ pc'[t] # pc[t]

\* The threads of SpecThreads, with every key, every set_vip argument and
\* every prune age, the clock moving at any point of a call; MaxFairCalls
\* calls are begun, within one refill interval of the limiter's construction.
NextFair ==
    \/ /\ calls < MaxFairCalls
       /\ \E t \in Threads, k \in Keys : CallRequest(t, k)
    \/ /\ calls < MaxFairCalls
       /\ \E t \in Threads, k \in Keys, p \in VipParams :
              CallSetVip(t, k, p.size, p.rate)
    \/ /\ calls < MaxFairCalls
       /\ \E t \in Threads, age \in PruneAges : CallPrune(t, age)
    \/ \E t \in Threads : ThreadStep(t)
    \/ now < default_refill_interval /\ Delay

\* The scheduler runs every thread that can run, and a thread that waits for
\* a mutex gets it if the mutex is free again and again: strong fairness of
\* each thread's steps, CanStep(t) being ENABLED ThreadStep(t) and Ran(t) a
\* step of ThreadStep(t).
Fairness == \A t \in Threads : ([]<>CanStep(t) => []<><<Ran(t)>>_vars)

SpecFair == InitThreads /\ [][NextFair]_vars /\ Fairness

(***************************************************************************)
(* Bucket::refill on its own: a bucket in any state it can have right      *)
(* after a call (0 to size tokens, last_filled = now) is refilled at       *)
(* arbitrary later instants, nothing being taken from it in between.       *)
(***************************************************************************)
TrialBuckets ==
    {[NewBucket(size, rate, interval, 0) EXCEPT !.tokens = tokens] :
        size \in {1, 2}, tokens \in 0..2, rate \in TrialRates, interval \in {1, 2}}

\* The bucket is the default bucket of a limiter built with its parameters.
InitRefill ==
    /\ bucket \in {b \in TrialBuckets : b.tokens <= b.size}
    /\ trial = [NoTrial EXCEPT !.origin = bucket]
    /\ New([size |-> bucket.size, rate |-> bucket.refill_rate,
            interval |-> bucket.refill_interval])

\* bucket.refill()
BucketRefill ==
    /\ ~trial.panicked
    /\ trial.refills < MaxRefills
    /\ LET r == Refill(bucket, now, overflow_checks)
       IN  /\ bucket' = r.bucket
           /\ trial' = [trial EXCEPT !.refills = @ + 1, !.at = now,
                                     !.panicked = r.panic]
    /\ UNCHANGED <<cfgvars, buckets, counters, returned, poisoned, now, nops, last,
                   hist, threadvars>>

\* Time passes between refills.
Elapse ==
    /\ now < MaxElapsed
    /\ now' = now + 1
    /\ UNCHANGED <<cfgvars, selfvars, buckets, counters, returned, poisoned, nops,
                   last, hist, threadvars>>

NextRefill == BucketRefill \/ Elapse

SpecRefill == InitRefill /\ [][NextRefill]_vars

(***************************************************************************)
(* examples/simple.rs: one key is requested 20 times, 200 ms apart, on a   *)
(* limiter of capacity 4 that refills 1 token per second. A tick is        *)
(* 100 ms here.                                                            *)
(***************************************************************************)
TraceSize == 4
TraceInterval == 10
TraceSleep == 2
TraceRequests == 20

InitTrace ==
    /\ New([size |-> TraceSize, rate |-> [hi |-> 0, lo |-> 1],
            interval |-> TraceInterval])
    /\ Idle

\* limiter.request("user"), the i-th one being made i sleeps after the first.
TraceRequest(k) ==
    /\ nops < TraceRequests
    /\ now = nops * TraceSleep
    /\ buckets = << >> \/ Has(buckets, k)
    /\ ~poisoned
    /\ nops' = nops + 1
    /\ LET r == RequestMap(buckets, k, default_bucket_size, default_refill_rate,
                           default_refill_interval, now, now, overflow_checks)
       IN  /\ buckets' = r.map
           /\ poisoned' = (r.result = "panic")
           /\ counters' =
                IF r.result = "admitted"
                THEN [counters EXCEPT !.requests_allowed = @ + 1]
                ELSE IF r.result = "denied"
                THEN [counters EXCEPT !.requests_denied = @ + 1]
                ELSE counters
           /\ returned' =
                IF r.result = "admitted"
                THEN [returned EXCEPT !.requests_allowed = @ + 1]
                ELSE IF r.result = "denied"
                THEN [returned EXCEPT !.requests_denied = @ + 1]
                ELSE returned
           /\ last' = [NoCall EXCEPT !.op = "request", !.key = k, !.result = r.result]
    /\ UNCHANGED <<cfgvars, selfvars, now, hist, threadvars>>

\* std::thread::sleep(Duration::from_millis(200)), one tick at a time.
TraceSleeping ==
    /\ nops >= 1
    /\ now < nops * TraceSleep
    /\ now' = now + 1
    /\ last' = NoCall
    /\ UNCHANGED <<cfgvars, selfvars, buckets, counters, returned, poisoned, nops,
                   hist, threadvars>>

NextTrace ==
    \/ \E k \in Keys : TraceRequest(k)
    \/ TraceSleeping

SpecTrace == InitTrace /\ [][NextTrace]_vars

(***************************************************************************)
(* Properties                                                              *)
(***************************************************************************)
\* The number of requests the bucket of k has answered.
Answered(k) ==
    buckets[k].counters.requests_allowed + buckets[k].counters.requests_denied

\* No refill interval has elapsed since the limiter was constructed.
NoRefillDue == now < default_refill_interval

\* The call that just returned is request(k).
Requested(k) == last.op = "request" /\ last.key = k

\* C1 (burst capacity): on a fresh limiter, while no refill interval has
\* elapsed, the i-th request(k) on a key that has only been requested is
\* admitted exactly when i <= default capacity: the first C are admitted and
\* the (C+1)-th is denied.
BurstCapacity ==
    \A k \in Keys :
        (Requested(k) /\ hist[k].kind = "request" /\ NoRefillDue)
        => ((last.result = "admitted") <=> (Answered(k) <= default_bucket_size))

\* The (C+1)-th request of a burst was just denied after C admissions.
BurstCapacityWitness ==
    \E k \in Keys :
        /\ Requested(k) /\ hist[k].kind = "request" /\ NoRefillDue
        /\ last.result = "denied"
        /\ buckets[k].counters.requests_allowed = default_bucket_size
        /\ buckets[k].counters.requests_denied = 1

\* Thread t has its bucket's answer and has not returned yet.
Answering(t) == pc[t] \in {"cnt_lock", "cnt_write"}

\* C2 (no double-spend): whenever no call holds the buckets mutex the map is
\* the one the calls leave when taken one at a time in the order of their
\* writes; every request's answer is the one it gets in that serial order;
\* and the tokens taken from a bucket plus those it holds are exactly those
\* credited to it, so one token never admits two requests.
NoDoubleSpend ==
    /\ buckets_lock = "free" => buckets = shadow
    /\ \A t \in Threads : Answering(t) => loc[t].success = loc[t].expected
    /\ buckets_lock = "free"
       => \A k \in DOMAIN buckets :
             buckets[k].tokens + ledger[k].spent = ledger[k].granted

\* Two requests on the same key are in flight together; one took the
\* bucket's last token and the other was denied.
NoDoubleSpendWitness ==
    \E t1 \in Threads, t2 \in Threads :
        /\ t1 # t2
        /\ Answering(t1) /\ Answering(t2)
        /\ loc[t1].key = loc[t2].key
        /\ loc[t1].success = "admitted"
        /\ loc[t2].success = "denied"
        /\ buckets[loc[t1].key].tokens = 0
        /\ ledger[loc[t1].key].spent = ledger[loc[t1].key].granted

\* C3 (refill correctness), as claimed: once the bucket of k is exhausted and
\* a full refill interval has passed with no call on k, the next
\* min(refill_rate, capacity) consecutive request(k) calls are admitted.
RefillCorrectness ==
    \A k \in Keys :
        (/\ Requested(k)
         /\ hist[k].streak >= 1
         /\ hist[k].streak <= MinU32(buckets[k].refill_rate, buckets[k].size))
        => last.result = "admitted"

\* C4 (cap enforcement): every bucket of the map holds between 0 and its own
\* size tokens.
CapEnforcement ==
    \A k \in DOMAIN buckets :
        buckets[k].tokens >= 0 /\ buckets[k].tokens <= buckets[k].size

\* A refill credited more than the bucket could hold: a bucket of size 3 and
\* rate 2, never reset, has admitted two requests and holds size - 1 tokens.
CapEnforcementWitness ==
    \E k \in Keys :
        /\ Requested(k) /\ hist[k].kind = "vip"
        /\ buckets[k].refill_rate = [hi |-> 0, lo |-> 2]
        /\ buckets[k].counters.requests_allowed = 2
        /\ buckets[k].counters.requests_denied = 0
        /\ buckets[k].last_filled > 0
        /\ buckets[k].tokens = buckets[k].size - 1

\* C5 (VIP override), as claimed: right after set_vip(k, B, R) the bucket of k
\* has capacity B, refill rate R and the limiter's default refill interval,
\* whether or not k had a bucket before.
VipOverride ==
    (last.op = "set_vip" /\ last.result = "ok")
    => /\ buckets[last.key].size = last.size
       /\ buckets[last.key].refill_rate = last.rate
       /\ buckets[last.key].refill_interval = default_refill_interval

\* C6 (VIP refresh), as claimed: set_vip(k, B, R) leaves the bucket of k full
\* with last_filled = now, and the next request(k) after it is admitted.
VipRefresh ==
    /\ (last.op = "set_vip" /\ last.result = "ok")
       => /\ buckets[last.key].tokens = buckets[last.key].size
          /\ buckets[last.key].last_filled = now
    /\ (last.op = "request" /\ last.vip_next) => last.result = "admitted"

\* C7 (VIP against a normal key): while no refill interval has elapsed, with
\* v a key whose bucket set_vip created and n a key only ever requested, each
\* of the first B requests on v is admitted, and a request on n is admitted
\* exactly when it is among n's first D.
VipVsNormal ==
    \A v \in Keys, n \in Keys :
        (/\ v # n
         /\ hist[v].kind = "vip"
         /\ hist[n].kind \in {"none", "request"}
         /\ NoRefillDue)
        => /\ (Requested(v) /\ Answered(v) <= buckets[v].size)
              => last.result = "admitted"
           /\ Requested(n)
              => ((last.result = "admitted") <=> (Answered(n) <= default_bucket_size))

\* The VIP key was just admitted for the B-th time, B > D, while the normal
\* key has been admitted D times and then denied.
VipVsNormalWitness ==
    \E v \in Keys, n \in Keys :
        /\ v # n /\ hist[v].kind = "vip" /\ hist[n].kind = "request" /\ NoRefillDue
        /\ Requested(v) /\ last.result = "admitted"
        /\ buckets[v].counters.requests_allowed = buckets[v].size
        /\ buckets[v].size > default_bucket_size
        /\ buckets[n].counters.requests_allowed = default_bucket_size
        /\ buckets[n].counters.requests_denied >= 1

\* C8 (prune keeps recently used buckets), as claimed: a bucket whose key was
\* touched by request or set_vip no longer than `age` before prune(age) is
\* not removed by it.
PruneKeepsRecent ==
    (last.op = "prune" /\ last.result = "ok")
    => \A k \in last.removed : now - hist[k].touched > last.age

\* A step is the call op.
IsCall(op) == nops' = nops + 1 /\ last'.op = op /\ last'.result # "panic"

\* C9 (prune evicts idle buckets): prune(age) removes exactly the buckets with
\* now - last_filled > age, whatever their tokens, leaves the others as they
\* were, and no bucket is left whose key was not touched for longer than age.
PruneEvictsIdle ==
    [][IsCall("prune") =>
         /\ DOMAIN buckets' \subseteq DOMAIN buckets
         /\ \A k \in DOMAIN buckets :
               /\ (k \in DOMAIN buckets') <=> (now - buckets[k].last_filled <= last'.age)
               /\ (k \in DOMAIN buckets') => buckets'[k] = buckets[k]
               /\ (k \in DOMAIN buckets') => now - hist[k].touched <= last'.age]_vars

\* prune just removed one bucket and kept another.
PruneEvictsIdleWitness ==
    /\ last.op = "prune" /\ last.result = "ok"
    /\ last.removed # {}
    /\ DOMAIN buckets # {}

\* C10 (key independence), as claimed: a request(k1) leaves the bucket of any
\* other key k2 as it was and does not change what a request(k2) returns.
KeyIndependence ==
    [][\A k1 \in Keys, k2 \in Keys :
          (k1 # k2 /\ nops' = nops + 1 /\ last'.op = "request" /\ last'.key = k1)
          => /\ Has(buckets', k2) <=> Has(buckets, k2)
             /\ Has(buckets, k2) => buckets'[k2] = buckets[k2]
             /\ RequestOutcome(k2)' = RequestOutcome(k2)]_vars

\* C11 (configuration validation), as claimed: no limiter exists whose
\* capacity, refill rate or refill interval is zero, so every request runs on
\* a limiter with positive parameters and never fails in refill's division.
ConfigValidation ==
    last.op = "request"
    => /\ default_bucket_size > 0
       /\ default_refill_rate # [hi |-> 0, lo |-> 0]
       /\ default_refill_interval > 0
       /\ last.result # "panic"

\* Thread t is in a call and cannot take a step.
Blocked(t) == pc[t] # "idle" /\ ~ENABLED ThreadStep(t)

\* C13 (no blocking): under fair scheduling every call that has begun ends;
\* a call that cannot take a step is waiting for the buckets mutex or the
\* counters mutex held by another thread, and the holder of a mutex is
\* inside the critical section of a call and can take a step. (The steps the
\* scheduler owes a thread, CanStep, are the enabled ones.)
NoBlocking ==
    /\ \A t \in Threads : (pc[t] # "idle") ~> (pc[t] = "idle")
    /\ [](\A t \in Threads :
            LET blocked == Blocked(t) IN
            /\ CanStep(t) <=> (pc[t] # "idle" /\ ~blocked)
            /\ blocked
               => \/ /\ pc[t] \in {"req_lock", "vip_lock", "prune_lock"}
                     /\ buckets_lock \in Threads \ {t}
                  \/ /\ pc[t] = "cnt_lock"
                     /\ counters_lock \in Threads \ {t}
            /\ buckets_lock = t
               => /\ pc[t] \in {"req_entry", "req_read", "req_write",
                                "vip_entry", "vip_reset"}
                  /\ CanStep(t)
            /\ counters_lock = t => (pc[t] = "cnt_write" /\ CanStep(t)))

\* One thread waits for the buckets mutex while the other, inside request,
\* holds it.
NoBlockingWitness ==
    \E t1 \in Threads, t2 \in Threads :
        /\ t1 # t2
        /\ pc[t1] \in {"req_lock", "vip_lock", "prune_lock"}
        /\ Blocked(t1)
        /\ buckets_lock = t2
        /\ pc[t2] = "req_write"

\* C14 (reference trace): with capacity 4, refill rate 1, refill interval 1 s
\* and one key requested every 200 ms, request i (from 0) is admitted exactly
\* when i <= 3 or i is a multiple of 5; request 4 is denied.
ReferenceTrace ==
    last.op = "request"
    => ((last.result = "admitted") <=> (nops - 1 <= 3 \/ (nops - 1) % 5 = 0))

\* The last request of the trace, request 19, was denied; requests 0-3, 5,
\* 10 and 15 were admitted and the twelve others denied.
ReferenceTraceWitness ==
    /\ last.op = "request" /\ last.result = "denied"
    /\ nops = TraceRequests
    /\ counters.requests_allowed = 7
    /\ counters.requests_denied = 13

\* Thread t is inside request.
InRequest(t) ==
    pc[t] \in {"req_lock", "req_entry", "req_read", "req_write", "cnt_lock", "cnt_write"}

\* The limiter's counters after one more request answered with `success`.
Counted(c, success) ==
    IF success = "admitted"
    THEN [c EXCEPT !.requests_allowed = @ + 1]
    ELSE [c EXCEPT !.requests_denied = @ + 1]

\* C17 (global counters): under every interleaving, a request that returns
\* adds exactly 1 to the one counter that matches its answer; nothing else
\* (set_vip, prune, the other steps of request) changes the counters; and
\* whenever no request is in progress the counters equal the numbers of
\* calls that returned true and false.
GlobalCounters ==
    [][/\ \A t \in Threads :
             (pc[t] = "cnt_write" /\ pc'[t] = "idle")
             => counters' = Counted(counters, loc[t].success)
       /\ counters' # counters
          => \E t \in Threads : pc[t] = "cnt_write" /\ pc'[t] = "idle"
       /\ (\A t \in Threads : ~InRequest(t)')
          => counters' = returned']_vars

\* Two requests answered differently are updating the counters at the same
\* time, one holding the counters mutex and the other waiting for it, after
\* an earlier request has been counted.
GlobalCountersWitness ==
    \E t1 \in Threads, t2 \in Threads :
        /\ pc[t1] = "cnt_write" /\ pc[t2] = "cnt_lock"
        /\ loc[t1].success # loc[t2].success
        /\ counters.requests_allowed = 1
        /\ returned = counters

\* Thread t takes the step of request or set_vip that looks its key up and
\* inserts a bucket if there is none.
EntryStep(t) == pc[t] \in {"req_entry", "vip_entry"} /\ pc'[t] # pc[t]

\* C18 (insert-on-first-use): a call inserts a bucket only for a key that has
\* none at that moment, and the bucket starts full with zero counters; a call
\* that found a bucket leaves the map as it is; a bucket appears in the map
\* by such an insertion only; and every request is answered by, and counted
\* in, the bucket the map holds for its key, whichever call created it.
InsertOnFirstUse ==
    [][/\ \A t \in Threads :
             LET k == loc[t].key
             IN  /\ (EntryStep(t) /\ ~loc[t].found)
                    => /\ ~Has(buckets, k) /\ Has(buckets', k)
                       /\ buckets'[k].tokens = buckets'[k].size
                       /\ buckets'[k].counters = RateLimiterStats
                       /\ \A x \in DOMAIN buckets : buckets'[x] = buckets[x]
                 /\ (EntryStep(t) /\ loc[t].found)
                    => Has(buckets, k) /\ buckets' = buckets
                 /\ (pc[t] = "req_write" /\ pc'[t] = "cnt_lock")
                    => /\ Has(buckets, k) /\ Has(buckets', k)
                       /\ buckets'[k].counters =
                             Counted(buckets[k].counters, loc'[t].success)
       /\ \A k \in Keys :
             (~Has(buckets, k) /\ Has(buckets', k))
             => \E t \in Threads : EntryStep(t) /\ loc[t].key = k /\ ~loc[t].found]_vars

\* Two requests began while their key had no bucket; the first created the
\* bucket, the second found it, and both are counted in that one bucket.
InsertOnFirstUseWitness ==
    \E t1 \in Threads, t2 \in Threads :
        /\ t1 # t2
        /\ loc[t1].key = loc[t2].key
        /\ loc[t1].op = "request" /\ loc[t2].op = "request"
        /\ loc[t1].absent /\ loc[t2].absent
        /\ ~loc[t1].found /\ loc[t2].found
        /\ Answering(t1) /\ Answering(t2)
        /\ Has(buckets, loc[t1].key)
        /\ Answered(loc[t1].key) = 2

\* a <= c + n * r for a refill rate r given by its halves.
AtMost(a, c, n, r) ==
    \/ a <= c
    \/ n * r.hi > (a - c) \div Half
    \/ n * r.hi * Half + n * r.lo >= a - c

\* C19 (rate bound): for a key whose bucket was created at t0 and has since
\* only been requested, the requests admitted so far are at most
\* size + refill_rate * floor((now - t0) / refill_interval); last_filled - t0
\* is a non-negative multiple of refill_interval and never decreases.
RateBound ==
    [][\A k \in DOMAIN buckets' :
          hist'[k].kind \in {"request", "vip"}
          => LET b == buckets'[k]
                 t0 == hist'[k].created
             IN  /\ AtMost(b.counters.requests_allowed, b.size,
                           (now' - t0) \div b.refill_interval, b.refill_rate)
                 /\ b.last_filled >= t0
                 /\ (b.last_filled - t0) % b.refill_interval = 0
                 /\ Has(buckets, k) => b.last_filled >= buckets[k].last_filled]_vars

\* A key that was only requested has been admitted exactly
\* size + refill_rate * floor((now - t0) / refill_interval) times, at least
\* one refill interval after its bucket was created.
RateBoundWitness ==
    \E k \in DOMAIN buckets :
        /\ hist[k].kind = "request"
        /\ Requested(k) /\ last.result = "admitted"
        /\ now - hist[k].created >= buckets[k].refill_interval
        /\ buckets[k].refill_rate = [hi |-> 0, lo |-> 1]
        /\ buckets[k].counters.requests_allowed =
              buckets[k].size + (now - hist[k].created) \div buckets[k].refill_interval
        /\ buckets[k].last_filled > hist[k].created

\* Key k had a bucket and prune removed it; k has not been touched since.
Evicted(k) == ~Has(buckets, k) /\ hist[k].kind = "mixed"

\* C20 (eviction forgets everything): a request(k) that runs after prune
\* removed the bucket of k, whatever that bucket was, creates a bucket with
\* the limiter's default size, refill rate and interval, last_filled = now,
\* and is admitted (the default size is positive): the bucket is left with
\* size - 1 tokens and counters 1 / 0, as after a first request on a key
\* never seen.
EvictionForgets ==
    [][\A k \in Keys :
          (IsCall("request") /\ last'.key = k /\ Evicted(k))
          => /\ last'.result = "admitted"
             /\ Has(buckets', k)
             /\ buckets'[k] =
                   [size |-> default_bucket_size,
                    tokens |-> default_bucket_size - 1,
                    refill_rate |-> default_refill_rate,
                    refill_interval |-> default_refill_interval,
                    last_filled |-> now,
                    counters |-> [requests_allowed |-> 1, requests_denied |-> 0]]]_vars

\* A key whose bucket was removed by prune has just been requested again,
\* at a later time than the limiter's start, and its bucket is a new default
\* one.
EvictionForgetsWitness ==
    \E k \in Keys :
        /\ Requested(k) /\ last.result = "admitted"
        /\ hist[k].kind = "mixed"
        /\ buckets[k].counters = [requests_allowed |-> 1, requests_denied |-> 0]
        /\ buckets[k].refill_rate = default_refill_rate
        /\ buckets[k].last_filled = now
        /\ now > 0

\* The step is a call of bucket.refill().
IsRefill == trial'.refills = trial.refills + 1

\* min(b.tokens + floor(elapsed / refill_interval) * refill_rate, b.size) at
\* instant t, in unbounded arithmetic (sizes are far below 2^30).
ExactTokens(b, t) ==
    LET n == DurationSince(t, b.last_filled) \div b.refill_interval
        room == b.size - b.tokens
    IN  IF n * b.refill_rate.hi > room \div Half THEN b.size
        ELSE IF n * b.refill_rate.hi * Half + n * b.refill_rate.lo >= room THEN b.size
        ELSE b.tokens + n * b.refill_rate.hi * Half + n * b.refill_rate.lo

\* C12 (drift-free refill), as claimed: after any number of refills spread
\* over an elapsed time, the bucket has the tokens and the last_filled that a
\* single refill of the starting bucket at the same instant gives; and a
\* refill repeated at the instant of the previous one adds no token.
DriftFreeRefill ==
    [][IsRefill =>
         LET once == Refill(trial.origin, now, overflow_checks)
         IN  /\ trial'.panicked = once.panic
             /\ ~once.panic => /\ bucket'.tokens = once.bucket.tokens
                               /\ bucket'.last_filled = once.bucket.last_filled
             /\ (trial.refills >= 1 /\ trial.at = now /\ ~trial'.panicked)
                => bucket'.tokens = bucket.tokens]_vars

\* C15 (refill arithmetic), as claimed: every refill completes and sets
\* tokens to min(old tokens + floor(elapsed / refill_interval) * refill_rate,
\* size), the product and the sum taken without truncation or wrap-around.
RefillArithmetic ==
    [][IsRefill => /\ ~trial'.panicked
                   /\ bucket'.tokens = ExactTokens(bucket, now)]_vars

\* C16 (remainder invariant): a refill that completes leaves now - last_filled
\* equal to the elapsed time since the previous last_filled modulo
\* refill_interval, hence below refill_interval, and last_filled at or before
\* now.
RemainderInvariant ==
    [][(IsRefill /\ ~trial'.panicked) =>
         LET elapsed == now - bucket.last_filled
         IN  /\ now - bucket'.last_filled = elapsed % bucket.refill_interval
             /\ now - bucket'.last_filled < bucket.refill_interval
             /\ bucket'.last_filled <= now]_vars

\* A refill has just moved last_filled forward by whole intervals and left a
\* remainder of elapsed time unaccounted for.
RemainderInvariantWitness ==
    /\ trial.refills >= 1 /\ ~trial.panicked /\ trial.at = now
    /\ bucket.last_filled > trial.origin.last_filled
    /\ now > bucket.last_filled

====
